---- MODULE Spec2Model ----
(***************************************************************************)
(* Model of src/aws-cost/main.py: an exporter that loads its configuration *)
(* (Constants), starts the HTTP metrics server, builds the collector       *)
(* (AWSCostMetricCollector: role assumption, billing client, time range),  *)
(* registers it, and then answers scrapes by running collect().            *)
(*                                                                         *)
(* Text is modelled as sequences of characters (one-character strings; a   *)
(* character TLA+ cannot write is named by its code point, "U+000B"), JSON *)
(* text as a sequence of tokens, a Python int as a sign and binary digits, *)
(* and a float as an IEEE-754 double: a sign, a 53-bit significand (bits,  *)
(* most significant first) and a binary exponent, with round-to-nearest-   *)
(* even in float() and in addition, infinities, NaN and subnormals.        *)
(***************************************************************************)
EXTENDS Integers, Sequences, FiniteSets, TLC

\* Bounds of the model (not program constants).
MaxGroups == 2      \* longest group list in one billing response
MaxTicks == 3       \* clock advances (half days) in one run
MaxPending == 1     \* scrapes waiting for the billing API at one time

\* Program constants.
SecondsPerDay == 86400      \* main.py:17
DefaultPort == 4298         \* main.py:18
DefaultScrapeDays == 1      \* main.py:17
MaxStrDigits == 4300        \* main.py:17, the interpreter's limit on the
                            \* decimal digits of an int read or written

\* A key that the configuration mapping does not hold.
ABSENT == "<absent>"

(***************************************************************************)
(* Text helpers of __get_aws_cost (main.py:120-128).                       *)
(***************************************************************************)
\* the characters str.isspace() holds of: str.split() splits on them and
\* float() strips them
Whitespace ==
    { " ", "\t", "\n", "\r", "\f", "U+000B", "U+001C", "U+001D", "U+001E",
      "U+001F", "U+0085", "U+00A0", "U+1680", "U+2000", "U+2001", "U+2002",
      "U+2003", "U+2004", "U+2005", "U+2006", "U+2007", "U+2008", "U+2009",
      "U+200A", "U+2028", "U+2029", "U+202F", "U+205F", "U+3000" }

RECURSIVE SplitFrom(_, _, _, _)
\* str.split(): the maximal runs of non-blank characters, in order.
\* cur is the run being read, acc the runs already closed.
SplitFrom(s, i, cur, acc) ==
    IF i > Len(s) THEN (IF cur = << >> THEN acc ELSE Append(acc, cur))
    ELSE IF s[i] \in Whitespace
         THEN SplitFrom(s, i + 1, << >>,
                        IF cur = << >> THEN acc ELSE Append(acc, cur))
         ELSE SplitFrom(s, i + 1, Append(cur, s[i]), acc)

split(s) == SplitFrom(s, 1, << >>, << >>)

RECURSIVE join(_, _)
\* sep.join(parts)
join(sep, parts) ==
    IF parts = << >> THEN << >>
    ELSE IF Len(parts) = 1 THEN parts[1]
    ELSE parts[1] \o sep \o join(sep, Tail(parts))

\* "_".join(key.split())   (line 124)
NormalizeService(key) == join(<< "_" >>, split(key))

(***************************************************************************)
(* Numbers (main.py:17-18, 123, 126-128).  A Python int is a sign and the  *)
(* binary digits of its magnitude, of any length; a float is an IEEE-754   *)
(* double.  Decimal text is read exactly, whatever its length, and rounded *)
(* once.                                                                   *)
(***************************************************************************)
\* The decimal digits of Unicode (category Nd), one row per script, the
\* digits 0 to 9 of the script in order: int() and float() read them all.
DecimalDigits ==
    << << "0", "1", "2", "3", "4", "5", "6", "7", "8", "9" >>,
       << "U+0660", "U+0661", "U+0662", "U+0663", "U+0664", "U+0665",
          "U+0666", "U+0667", "U+0668", "U+0669" >>,
       << "U+06F0", "U+06F1", "U+06F2", "U+06F3", "U+06F4", "U+06F5",
          "U+06F6", "U+06F7", "U+06F8", "U+06F9" >>,
       << "U+07C0", "U+07C1", "U+07C2", "U+07C3", "U+07C4", "U+07C5",
          "U+07C6", "U+07C7", "U+07C8", "U+07C9" >>,
       << "U+0966", "U+0967", "U+0968", "U+0969", "U+096A", "U+096B",
          "U+096C", "U+096D", "U+096E", "U+096F" >>,
       << "U+09E6", "U+09E7", "U+09E8", "U+09E9", "U+09EA", "U+09EB",
          "U+09EC", "U+09ED", "U+09EE", "U+09EF" >>,
       << "U+0A66", "U+0A67", "U+0A68", "U+0A69", "U+0A6A", "U+0A6B",
          "U+0A6C", "U+0A6D", "U+0A6E", "U+0A6F" >>,
       << "U+0AE6", "U+0AE7", "U+0AE8", "U+0AE9", "U+0AEA", "U+0AEB",
          "U+0AEC", "U+0AED", "U+0AEE", "U+0AEF" >>,
       << "U+0B66", "U+0B67", "U+0B68", "U+0B69", "U+0B6A", "U+0B6B",
          "U+0B6C", "U+0B6D", "U+0B6E", "U+0B6F" >>,
       << "U+0BE6", "U+0BE7", "U+0BE8", "U+0BE9", "U+0BEA", "U+0BEB",
          "U+0BEC", "U+0BED", "U+0BEE", "U+0BEF" >>,
       << "U+0C66", "U+0C67", "U+0C68", "U+0C69", "U+0C6A", "U+0C6B",
          "U+0C6C", "U+0C6D", "U+0C6E", "U+0C6F" >>,
       << "U+0CE6", "U+0CE7", "U+0CE8", "U+0CE9", "U+0CEA", "U+0CEB",
          "U+0CEC", "U+0CED", "U+0CEE", "U+0CEF" >>,
       << "U+0D66", "U+0D67", "U+0D68", "U+0D69", "U+0D6A", "U+0D6B",
          "U+0D6C", "U+0D6D", "U+0D6E", "U+0D6F" >>,
       << "U+0DE6", "U+0DE7", "U+0DE8", "U+0DE9", "U+0DEA", "U+0DEB",
          "U+0DEC", "U+0DED", "U+0DEE", "U+0DEF" >>,
       << "U+0E50", "U+0E51", "U+0E52", "U+0E53", "U+0E54", "U+0E55",
          "U+0E56", "U+0E57", "U+0E58", "U+0E59" >>,
       << "U+0ED0", "U+0ED1", "U+0ED2", "U+0ED3", "U+0ED4", "U+0ED5",
          "U+0ED6", "U+0ED7", "U+0ED8", "U+0ED9" >>,
       << "U+0F20", "U+0F21", "U+0F22", "U+0F23", "U+0F24", "U+0F25",
          "U+0F26", "U+0F27", "U+0F28", "U+0F29" >>,
       << "U+1040", "U+1041", "U+1042", "U+1043", "U+1044", "U+1045",
          "U+1046", "U+1047", "U+1048", "U+1049" >>,
       << "U+1090", "U+1091", "U+1092", "U+1093", "U+1094", "U+1095",
          "U+1096", "U+1097", "U+1098", "U+1099" >>,
       << "U+17E0", "U+17E1", "U+17E2", "U+17E3", "U+17E4", "U+17E5",
          "U+17E6", "U+17E7", "U+17E8", "U+17E9" >>,
       << "U+1810", "U+1811", "U+1812", "U+1813", "U+1814", "U+1815",
          "U+1816", "U+1817", "U+1818", "U+1819" >>,
       << "U+1946", "U+1947", "U+1948", "U+1949", "U+194A", "U+194B",
          "U+194C", "U+194D", "U+194E", "U+194F" >>,
       << "U+19D0", "U+19D1", "U+19D2", "U+19D3", "U+19D4", "U+19D5",
          "U+19D6", "U+19D7", "U+19D8", "U+19D9" >>,
       << "U+1A80", "U+1A81", "U+1A82", "U+1A83", "U+1A84", "U+1A85",
          "U+1A86", "U+1A87", "U+1A88", "U+1A89" >>,
       << "U+1A90", "U+1A91", "U+1A92", "U+1A93", "U+1A94", "U+1A95",
          "U+1A96", "U+1A97", "U+1A98", "U+1A99" >>,
       << "U+1B50", "U+1B51", "U+1B52", "U+1B53", "U+1B54", "U+1B55",
          "U+1B56", "U+1B57", "U+1B58", "U+1B59" >>,
       << "U+1BB0", "U+1BB1", "U+1BB2", "U+1BB3", "U+1BB4", "U+1BB5",
          "U+1BB6", "U+1BB7", "U+1BB8", "U+1BB9" >>,
       << "U+1C40", "U+1C41", "U+1C42", "U+1C43", "U+1C44", "U+1C45",
          "U+1C46", "U+1C47", "U+1C48", "U+1C49" >>,
       << "U+1C50", "U+1C51", "U+1C52", "U+1C53", "U+1C54", "U+1C55",
          "U+1C56", "U+1C57", "U+1C58", "U+1C59" >>,
       << "U+A620", "U+A621", "U+A622", "U+A623", "U+A624", "U+A625",
          "U+A626", "U+A627", "U+A628", "U+A629" >>,
       << "U+A8D0", "U+A8D1", "U+A8D2", "U+A8D3", "U+A8D4", "U+A8D5",
          "U+A8D6", "U+A8D7", "U+A8D8", "U+A8D9" >>,
       << "U+A900", "U+A901", "U+A902", "U+A903", "U+A904", "U+A905",
          "U+A906", "U+A907", "U+A908", "U+A909" >>,
       << "U+A9D0", "U+A9D1", "U+A9D2", "U+A9D3", "U+A9D4", "U+A9D5",
          "U+A9D6", "U+A9D7", "U+A9D8", "U+A9D9" >>,
       << "U+A9F0", "U+A9F1", "U+A9F2", "U+A9F3", "U+A9F4", "U+A9F5",
          "U+A9F6", "U+A9F7", "U+A9F8", "U+A9F9" >>,
       << "U+AA50", "U+AA51", "U+AA52", "U+AA53", "U+AA54", "U+AA55",
          "U+AA56", "U+AA57", "U+AA58", "U+AA59" >>,
       << "U+ABF0", "U+ABF1", "U+ABF2", "U+ABF3", "U+ABF4", "U+ABF5",
          "U+ABF6", "U+ABF7", "U+ABF8", "U+ABF9" >>,
       << "U+FF10", "U+FF11", "U+FF12", "U+FF13", "U+FF14", "U+FF15",
          "U+FF16", "U+FF17", "U+FF18", "U+FF19" >>,
       << "U+104A0", "U+104A1", "U+104A2", "U+104A3", "U+104A4", "U+104A5",
          "U+104A6", "U+104A7", "U+104A8", "U+104A9" >>,
       << "U+10D30", "U+10D31", "U+10D32", "U+10D33", "U+10D34", "U+10D35",
          "U+10D36", "U+10D37", "U+10D38", "U+10D39" >>,
       << "U+11066", "U+11067", "U+11068", "U+11069", "U+1106A", "U+1106B",
          "U+1106C", "U+1106D", "U+1106E", "U+1106F" >>,
       << "U+110F0", "U+110F1", "U+110F2", "U+110F3", "U+110F4", "U+110F5",
          "U+110F6", "U+110F7", "U+110F8", "U+110F9" >>,
       << "U+11136", "U+11137", "U+11138", "U+11139", "U+1113A", "U+1113B",
          "U+1113C", "U+1113D", "U+1113E", "U+1113F" >>,
       << "U+111D0", "U+111D1", "U+111D2", "U+111D3", "U+111D4", "U+111D5",
          "U+111D6", "U+111D7", "U+111D8", "U+111D9" >>,
       << "U+112F0", "U+112F1", "U+112F2", "U+112F3", "U+112F4", "U+112F5",
          "U+112F6", "U+112F7", "U+112F8", "U+112F9" >>,
       << "U+11450", "U+11451", "U+11452", "U+11453", "U+11454", "U+11455",
          "U+11456", "U+11457", "U+11458", "U+11459" >>,
       << "U+114D0", "U+114D1", "U+114D2", "U+114D3", "U+114D4", "U+114D5",
          "U+114D6", "U+114D7", "U+114D8", "U+114D9" >>,
       << "U+11650", "U+11651", "U+11652", "U+11653", "U+11654", "U+11655",
          "U+11656", "U+11657", "U+11658", "U+11659" >>,
       << "U+116C0", "U+116C1", "U+116C2", "U+116C3", "U+116C4", "U+116C5",
          "U+116C6", "U+116C7", "U+116C8", "U+116C9" >>,
       << "U+11730", "U+11731", "U+11732", "U+11733", "U+11734", "U+11735",
          "U+11736", "U+11737", "U+11738", "U+11739" >>,
       << "U+118E0", "U+118E1", "U+118E2", "U+118E3", "U+118E4", "U+118E5",
          "U+118E6", "U+118E7", "U+118E8", "U+118E9" >>,
       << "U+11950", "U+11951", "U+11952", "U+11953", "U+11954", "U+11955",
          "U+11956", "U+11957", "U+11958", "U+11959" >>,
       << "U+11C50", "U+11C51", "U+11C52", "U+11C53", "U+11C54", "U+11C55",
          "U+11C56", "U+11C57", "U+11C58", "U+11C59" >>,
       << "U+11D50", "U+11D51", "U+11D52", "U+11D53", "U+11D54", "U+11D55",
          "U+11D56", "U+11D57", "U+11D58", "U+11D59" >>,
       << "U+11DA0", "U+11DA1", "U+11DA2", "U+11DA3", "U+11DA4", "U+11DA5",
          "U+11DA6", "U+11DA7", "U+11DA8", "U+11DA9" >>,
       << "U+16A60", "U+16A61", "U+16A62", "U+16A63", "U+16A64", "U+16A65",
          "U+16A66", "U+16A67", "U+16A68", "U+16A69" >>,
       << "U+16AC0", "U+16AC1", "U+16AC2", "U+16AC3", "U+16AC4", "U+16AC5",
          "U+16AC6", "U+16AC7", "U+16AC8", "U+16AC9" >>,
       << "U+16B50", "U+16B51", "U+16B52", "U+16B53", "U+16B54", "U+16B55",
          "U+16B56", "U+16B57", "U+16B58", "U+16B59" >>,
       << "U+1D7CE", "U+1D7CF", "U+1D7D0", "U+1D7D1", "U+1D7D2", "U+1D7D3",
          "U+1D7D4", "U+1D7D5", "U+1D7D6", "U+1D7D7" >>,
       << "U+1D7D8", "U+1D7D9", "U+1D7DA", "U+1D7DB", "U+1D7DC", "U+1D7DD",
          "U+1D7DE", "U+1D7DF", "U+1D7E0", "U+1D7E1" >>,
       << "U+1D7E2", "U+1D7E3", "U+1D7E4", "U+1D7E5", "U+1D7E6", "U+1D7E7",
          "U+1D7E8", "U+1D7E9", "U+1D7EA", "U+1D7EB" >>,
       << "U+1D7EC", "U+1D7ED", "U+1D7EE", "U+1D7EF", "U+1D7F0", "U+1D7F1",
          "U+1D7F2", "U+1D7F3", "U+1D7F4", "U+1D7F5" >>,
       << "U+1D7F6", "U+1D7F7", "U+1D7F8", "U+1D7F9", "U+1D7FA", "U+1D7FB",
          "U+1D7FC", "U+1D7FD", "U+1D7FE", "U+1D7FF" >>,
       << "U+1E140", "U+1E141", "U+1E142", "U+1E143", "U+1E144", "U+1E145",
          "U+1E146", "U+1E147", "U+1E148", "U+1E149" >>,
       << "U+1E2F0", "U+1E2F1", "U+1E2F2", "U+1E2F3", "U+1E2F4", "U+1E2F5",
          "U+1E2F6", "U+1E2F7", "U+1E2F8", "U+1E2F9" >>,
       << "U+1E950", "U+1E951", "U+1E952", "U+1E953", "U+1E954", "U+1E955",
          "U+1E956", "U+1E957", "U+1E958", "U+1E959" >>,
       << "U+1FBF0", "U+1FBF1", "U+1FBF2", "U+1FBF3", "U+1FBF4", "U+1FBF5",
          "U+1FBF6", "U+1FBF7", "U+1FBF8", "U+1FBF9" >> >>

\* the value of each decimal digit character: its column in the table,
\* less one
DigitValue ==
    LET Places == (1..Len(DecimalDigits)) \X (1..Len(DecimalDigits[1])) IN
    [c \in { DecimalDigits[p[1]][p[2]] : p \in Places } |->
        (CHOOSE p \in Places : DecimalDigits[p[1]][p[2]] = c)[2] - 1]

\* the value of the digit c, -1 for any other character
Digit(c) == IF c \in DOMAIN DigitValue THEN DigitValue[c] ELSE -1

IsDigit(c) == Digit(c) >= 0

IsDigitAt(s, i) == i >= 1 /\ i <= Len(s) /\ IsDigit(s[i])

\* index i of s belongs to the digit part that begins at index from: a
\* digit, or an underscore that stands between two digits
InDigits(s, from, i) ==
    \/ IsDigitAt(s, i)
    \/ /\ i > from
       /\ i < Len(s)
       /\ s[i] = "_"
       /\ IsDigitAt(s, i - 1)
       /\ IsDigitAt(s, i + 1)

\* the index of the first character after the digit part of s that begins
\* at index from
DigitsEnd(s, from) ==
    CHOOSE e \in from..(Len(s) + 1) :
        /\ e = Len(s) + 1 \/ ~InDigits(s, from, e)
        /\ \A i \in from..(e - 1) : InDigits(s, from, i)

\* the values of the digit characters t
DigitsOf(t) == [k \in 1..Len(t) |-> Digit(t[k])]

\* the digit part from..(e - 1) of s, its underscores dropped
DigitsTo(s, from, e) ==
    [next |-> e, digits |-> DigitsOf(SelectSeq(SubSeq(s, from, e - 1), IsDigit))]

\* Reads a digit part of s from index from on.  [next, digits]: next is the
\* index of the first character not read, digits the values of the digits
\* read, first digit first.
ReadDigits(s, from) == DigitsTo(s, from, DigitsEnd(s, from))

\* k zeros (bits or digits)
Zeros(k) == [i \in 1..k |-> 0]

RECURSIVE Pow2(_)
\* 2^k by repeated squaring
Pow2(k) ==
    IF k = 0 THEN 1
    ELSE LET h == Pow2(k \div 2) IN h * h * (IF k % 2 = 1 THEN 2 ELSE 1)

\* the number of binary digits of n >= 0
BitLen(n) ==
    CHOOSE k \in 0..31 :
        /\ k = 0 \/ n >= Pow2(k - 1)
        /\ k = 31 \/ n < Pow2(k)

\* the binary digits of n >= 0, most significant first, none for 0
NatBits(n) ==
    LET len == BitLen(n) IN [i \in 1..len |-> (n \div Pow2(len - i)) % 2]

RECURSIVE BitsNat(_)
\* the number a bit string of at most 30 bits spells
BitsNat(b) ==
    IF Len(b) = 0 THEN 0
    ELSE IF Len(b) = 1 THEN b[1]
    ELSE LET half == Len(b) \div 2 IN
         BitsNat(SubSeq(b, 1, half)) * Pow2(Len(b) - half)
             + BitsNat(SubSeq(b, half + 1, Len(b)))

AnyOne(b) == \E i \in 1..Len(b) : b[i] # 0

\* the number of zeros that d begins with
LeadingZeros(d) ==
    CHOOSE z \in 0..Len(d) :
        /\ \A i \in 1..z : d[i] = 0
        /\ z = Len(d) \/ d[z + 1] # 0

\* b without its leading zeros
Trim(b) == SubSeq(b, LeadingZeros(b) + 1, Len(b))

Min(a, b) == IF a < b THEN a ELSE b

Max(a, b) == IF a > b THEN a ELSE b

RECURSIVE AddRange(_, _, _, _, _)
RECURSIVE AddHigh(_, _, _, _, _)
\* a + b + cin over the bit positions lo..hi: the carry out of position lo,
\* followed by the sum bits of lo..hi
AddRange(a, b, lo, hi, cin) ==
    IF lo = hi
    THEN << (a[lo] + b[lo] + cin) \div 2, (a[lo] + b[lo] + cin) % 2 >>
    ELSE AddHigh(a, b, lo, (lo + hi) \div 2,
                 AddRange(a, b, (lo + hi) \div 2 + 1, hi, cin))

\* the upper positions lo..mid added onto the sum of the lower ones
AddHigh(a, b, lo, mid, lower) ==
    (IF lower[1] = 1 THEN AddRange(a, b, lo, mid, 1)
     ELSE AddRange(a, b, lo, mid, 0)) \o Tail(lower)

\* s without its first bit when that bit is 0
DropZero(s) == IF s[1] = 0 THEN Tail(s) ELSE s

\* a + b for bit strings of one length
AddBits(a, b) ==
    IF Len(a) = 0 THEN << >> ELSE DropZero(AddRange(a, b, 1, Len(a), 0))

RECURSIVE SubRange(_, _, _, _, _)
RECURSIVE SubHigh(_, _, _, _, _)
\* a - b - bin over the bit positions lo..hi: the borrow out of position
\* lo, followed by the difference bits of lo..hi
SubRange(a, b, lo, hi, bin) ==
    IF lo = hi
    THEN << IF a[lo] - b[lo] - bin < 0 THEN 1 ELSE 0,
            (a[lo] - b[lo] - bin + 2) % 2 >>
    ELSE SubHigh(a, b, lo, (lo + hi) \div 2,
                 SubRange(a, b, (lo + hi) \div 2 + 1, hi, bin))

\* the upper positions lo..mid subtracted after the lower ones
SubHigh(a, b, lo, mid, lower) ==
    (IF lower[1] = 1 THEN SubRange(a, b, lo, mid, 1)
     ELSE SubRange(a, b, lo, mid, 0)) \o Tail(lower)

\* a - b for bit strings of one length with a >= b
SubBits(a, b) ==
    IF Len(a) = 0 THEN << >> ELSE Tail(SubRange(a, b, 1, Len(a), 0))

PadLeft(b, n) == Zeros(n - Len(b)) \o b

\* a + b for bit strings without leading zeros
AddNat(a, b) ==
    AddBits(PadLeft(a, Max(Len(a), Len(b))), PadLeft(b, Max(Len(a), Len(b))))

\* b with one added
Increment(b) == AddNat(b, << 1 >>)

RECURSIVE SumShifted(_, _, _, _)
\* the sum of b * 2^(Len(m) - i) over the positions i of lo..hi where the
\* bit string m has a 1
SumShifted(b, m, lo, hi) ==
    IF lo = hi
    THEN (IF m[lo] = 1 THEN b \o Zeros(Len(m) - lo) ELSE << >>)
    ELSE AddNat(SumShifted(b, m, lo, (lo + hi) \div 2),
                SumShifted(b, m, (lo + hi) \div 2 + 1, hi))

\* b * n for a bit string b without leading zeros and a number n >= 0
MulNat(b, n) ==
    IF n = 0 \/ b = << >> THEN << >>
    ELSE SumShifted(b, NatBits(n), 1, BitLen(n))

\* the numbers spelled by the 30-bit pieces of b, first piece first
Pieces(b) ==
    [c \in 1..((Len(b) + 29) \div 30) |->
        BitsNat(SubSeq(b, 30 * (c - 1) + 1,
                       IF 30 * c < Len(b) THEN 30 * c ELSE Len(b)))]

\* pa < pb for lists of numbers of one length, the first difference deciding
PiecesLess(pa, pb) ==
    \E c \in 1..Len(pa) :
        pa[c] < pb[c] /\ \A e \in 1..(c - 1) : pa[e] = pb[e]

\* a < b for bit strings of one length
BitsLess(a, b) == PiecesLess(Pieces(a), Pieces(b))

\* A Python int: the sign and the binary digits of the magnitude, most
\* significant first, none for 0.
Signed(neg, bits) == [neg |-> neg /\ bits # << >>, bits |-> bits]

\* the Python int of the number n
IntOf(n) == Signed(n < 0, NatBits(IF n < 0 THEN -n ELSE n))

\* the digit at index i of d, 0 outside d
DigitAt(d, i) == IF i >= 1 /\ i <= Len(d) THEN d[i] ELSE 0

\* the number of the four digits of d from index i on
FourAt(d, i) ==
    DigitAt(d, i) * 1000 + DigitAt(d, i + 1) * 100
        + DigitAt(d, i + 2) * 10 + DigitAt(d, i + 3)

\* the digits d of a whole number in fours counted from the right: its
\* digits base 10^4, most significant first
WholeLimbs(d) ==
    [j \in 1..((Len(d) + 3) \div 4) |->
        FourAt(d, Len(d) - 4 * ((Len(d) + 3) \div 4 - j) - 3)]

\* the digits d after a point in fours counted from the left
FractionLimbs(d) ==
    [j \in 1..((Len(d) + 3) \div 4) |-> FourAt(d, 4 * (j - 1) + 1)]

RECURSIVE DivRange(_, _, _, _)
RECURSIVE DivLow(_, _, _, _)
\* Short division by 2^16 over the limbs lo..hi of x (base 10^4), rem being
\* the remainder the limbs above left: the remainder, followed by the
\* quotient limbs of lo..hi
DivRange(x, lo, hi, rem) ==
    IF lo = hi
    THEN << (rem * 10000 + x[lo]) % 65536, (rem * 10000 + x[lo]) \div 65536 >>
    ELSE DivLow(x, (lo + hi) \div 2 + 1, hi,
                DivRange(x, lo, (lo + hi) \div 2, rem))

\* the quotient limbs of the upper part, then those of the lower part
DivJoin(upper, lower) == << lower[1] >> \o Tail(upper) \o Tail(lower)

\* the lower limbs lo..hi divided after the upper ones
DivLow(x, lo, hi, upper) ==
    DivJoin(upper, IF upper[1] >= 0 THEN DivRange(x, lo, hi, upper[1])
                   ELSE << >>)

\* one division: the quotient limbs and the remainder as the only chunk
DivOnce(p) == [q |-> Tail(p), chunks |-> << p[1] >>]

RECURSIVE IntChunks(_, _)
RECURSIVE MoreIntChunks(_, _)
\* The limbs x divided n times by 2^16: q the last quotient, chunks the n
\* remainders, the last one first (the digits base 2^16 of x when q is 0).
IntChunks(x, n) ==
    IF n = 0 THEN [q |-> x, chunks |-> << >>]
    ELSE IF n = 1 THEN DivOnce(DivRange(x, 1, Len(x), 0))
    ELSE MoreIntChunks(n - n \div 2, IntChunks(x, n \div 2))

\* the chunks of the later divisions before those of the earlier ones
ChunksJoin(later, chunks) ==
    [q |-> later.q, chunks |-> later.chunks \o chunks]

\* n more divisions after those of done
MoreIntChunks(n, done) ==
    ChunksJoin(IF Len(done.q) >= 0 THEN IntChunks(done.q, n) ELSE done,
               done.chunks)

RECURSIVE MulRange(_, _, _, _)
RECURSIVE MulHigh(_, _, _, _)
\* The fraction limbs lo..hi of f (base 10^4) times 2^16 plus carry: the
\* carry out of limb lo, followed by the product limbs of lo..hi
MulRange(f, lo, hi, carry) ==
    IF lo = hi
    THEN << (f[lo] * 65536 + carry) \div 10000,
            (f[lo] * 65536 + carry) % 10000 >>
    ELSE MulHigh(f, lo, (lo + hi) \div 2,
                 MulRange(f, (lo + hi) \div 2 + 1, hi, carry))

\* the upper limbs lo..hi multiplied after the lower ones
MulHigh(f, lo, hi, lower) ==
    (IF lower[1] >= 0 THEN MulRange(f, lo, hi, lower[1]) ELSE << >>)
        \o Tail(lower)

\* one multiplication: the fraction left and the carry as the only chunk
MulOnce(p) == [rest |-> Tail(p), chunks |-> << p[1] >>]

RECURSIVE FracChunks(_, _)
RECURSIVE MoreFracChunks(_, _)
\* The fraction 0.f multiplied n times by 2^16: chunks are the whole parts
\* that came out, first one first (the first n digits base 2^16 of the
\* fraction), rest the fraction left.
FracChunks(f, n) ==
    IF n = 0 THEN [rest |-> f, chunks |-> << >>]
    ELSE IF n = 1 THEN MulOnce(MulRange(f, 1, Len(f), 0))
    ELSE MoreFracChunks(n - n \div 2, FracChunks(f, n \div 2))

\* the chunks of the earlier multiplications before those of the later ones
PlacesJoin(chunks, later) ==
    [rest |-> later.rest, chunks |-> chunks \o later.chunks]

\* n more multiplications after those of done
MoreFracChunks(n, done) ==
    PlacesJoin(done.chunks,
               IF Len(done.rest) >= 0 THEN FracChunks(done.rest, n) ELSE done)

\* the bits of the base-2^16 digits qs, sixteen to a digit
ChunkBits(qs) ==
    [j \in 1..(16 * Len(qs)) |->
        (qs[(j - 1) \div 16 + 1] \div Pow2(15 - ((j - 1) % 16))) % 2]

\* the divisions by 2^16 that exhaust a whole number of n limbs base 10^4
WholeCount(n) == IF n = 0 THEN 0 ELSE (14 * n) \div 16 + 1

\* the binary digits of the whole number with the decimal digits d
DigitsBits(d) ==
    Trim(ChunkBits(IntChunks(WholeLimbs(d),
                             WholeCount((Len(d) + 3) \div 4)).chunks))

Zero(neg) == [kind |-> "finite", neg |-> neg, man |-> << >>, exp |-> 0]

Inf(neg) == [kind |-> "inf", neg |-> neg, man |-> << >>, exp |-> 0]

NaN == [kind |-> "nan", neg |-> FALSE, man |-> << >>, exp |-> 0]

\* (-1)^neg * man * 2^exp: man has 53 bits and begins with 1, or exp is
\* -1074 (a subnormal)
Finite(neg, man, exp) ==
    [kind |-> "finite", neg |-> neg, man |-> man, exp |-> exp]

\* beyond the largest double lies infinity
Bounded(neg, man, exp) ==
    IF exp > 971 THEN Inf(neg) ELSE Finite(neg, man, exp)

\* The double (-1)^neg * m * 2^exp for a significand m that begins with 1
\* and has at most 53 bits, or 54 with zeros after the first (a carry),
\* and an exp >= -1074.
Canonical(neg, m, exp) ==
    IF Len(m) = 54 THEN Bounded(neg, SubSeq(m, 1, 53), exp + 1)
    ELSE Bounded(neg,
                 PadLeft(m \o Zeros(Min(53 - Len(m), exp + 1074)), 53),
                 exp - Min(53 - Len(m), exp + 1074))

\* b * 2^exp rounded to the first keep bits of b, ties to even
RoundAt(neg, b, sticky, exp, keep) ==
    IF keep < 0 THEN Zero(neg)
    ELSE IF keep = Len(b) THEN Canonical(neg, b, exp)
    ELSE IF /\ b[keep + 1] = 1
            /\ \/ sticky
               \/ AnyOne(SubSeq(b, keep + 2, Len(b)))
               \/ keep > 0 /\ b[keep] = 1
    THEN Canonical(neg, Increment(SubSeq(b, 1, keep)), exp + Len(b) - keep)
    ELSE IF keep = 0 THEN Zero(neg)
    ELSE Canonical(neg, SubSeq(b, 1, keep), exp + Len(b) - keep)

\* The double nearest to (-1)^neg * (b + f) * 2^exp, ties to even: b is a
\* bit string without leading zeros, f = 0 unless sticky, and then
\* 0 < f < 1.  At most 53 bits are kept, and none below 2^-1074.
RoundBits(neg, b, sticky, exp) ==
    IF b = << >> THEN Zero(neg)
    ELSE RoundAt(neg, b, sticky, exp,
                 Min(Min(53, Len(b)), Len(b) + exp + 1074))

\* the characters float() and int() drop around a number: str.split()'s
\* white space but for the four separators U+001C..U+001F
FloatSpace == Whitespace \ { "U+001C", "U+001D", "U+001E", "U+001F" }

\* the index of the first character of text that is not white space
FirstInk(text) ==
    CHOOSE i \in 1..(Len(text) + 1) :
        /\ \A j \in 1..(i - 1) : text[j] \in FloatSpace
        /\ i = Len(text) + 1 \/ text[i] \notin FloatSpace

\* the index of the last one, 0 when there is none
LastInk(text) ==
    CHOOSE i \in 0..Len(text) :
        /\ \A j \in (i + 1)..Len(text) : text[j] \in FloatSpace
        /\ i = 0 \/ text[i] \notin FloatSpace

\* text without the white space that leads and trails it
Strip(text) == SubSeq(text, FirstInk(text), LastInk(text))

\* t spells the word (given in lower case), in any case
Spells(t, word, upper) ==
    /\ Len(t) = Len(word)
    /\ \A i \in 1..Len(t) : t[i] \in { word[i], upper[i] }

Failed == [ok |-> FALSE, value |-> Zero(FALSE)]

\* the bits of the whole part and of the binary places made into a double
FromChunks(neg, whole, places) ==
    RoundBits(neg, Trim(ChunkBits(whole \o places.chunks)),
              AnyOne(places.rest), -(16 * Len(places.chunks)))

\* the binary places (in sixteens) to work out of a fraction that begins
\* with zf zeros: four after a whole part, which has a 1 bit itself, and
\* else enough to hold 55 bits from the first 1 on or to reach 2^-1074
PlaceCount(whole, fraction, zf) ==
    IF Len(fraction) = 0 THEN 0
    ELSE IF Len(whole) > 0 THEN 4
    ELSE Min(68, (4 * (zf + 1) + 55) \div 16 + 1)

\* the double nearest to (-1)^neg * whole.fraction, both given by their
\* decimal digits; whole does not begin with 0, and fraction begins with
\* zf zeros when whole is empty
DecimalDouble(neg, whole, fraction, zf) ==
    FromChunks(neg,
               IntChunks(WholeLimbs(whole),
                         WholeCount((Len(whole) + 3) \div 4)).chunks,
               FracChunks(FractionLimbs(fraction),
                          PlaceCount(whole, fraction, zf)))

\* The double nearest to (-1)^neg * 0.sig * 10^point for decimal digits sig
\* that do not begin with 0.  No double is as large as 10^309, and any
\* number below 10^-324 rounds to zero.
Placed(neg, sig, point) ==
    IF Len(sig) = 0 THEN Zero(neg)
    ELSE IF point >= 310 THEN Inf(neg)
    ELSE IF point <= -324 THEN Zero(neg)
    ELSE DecimalDouble(neg,
                       SubSeq(sig, 1, Min(point, Len(sig)))
                           \o Zeros(point - Len(sig)),
                       Zeros(-point) \o SubSeq(sig, Max(point, 0) + 1, Len(sig)),
                       Max(-point, 0))

\* d without its leading zeros
Significant(d) == SubSeq(d, LeadingZeros(d) + 1, Len(d))

\* the number of an exponent's digits, 10^6 standing for anything beyond
ExponentNat(s) ==
    IF Len(s) > 6 THEN 1000000
    ELSE FourAt(s, Len(s) - 7) * 10000 + FourAt(s, Len(s) - 3)

\* the number with the digits whole before the point and fraction after
\* it, times 10^e
Decimal(neg, whole, fraction, e) ==
    Placed(neg, Significant(whole \o fraction),
           Len(whole) - LeadingZeros(whole \o fraction) + e)

\* The end of a number: int is the reading of the whole part, frac that of
\* the fraction, ex that of the exponent.
ParseEnd(minus, rest, int, frac, eminus, ex) ==
    IF /\ Len(int.digits) + Len(frac.digits) > 0
       /\ Len(ex.digits) > 0
       /\ ex.next = Len(rest) + 1
    THEN [ok |-> TRUE,
          value |-> Decimal(minus, int.digits, frac.digits,
                            IF eminus
                            THEN -ExponentNat(Significant(ex.digits))
                            ELSE ExponentNat(Significant(ex.digits)))]
    ELSE Failed

\* the exponent has a sign at index i of rest
SignAt(rest, i) == i <= Len(rest) /\ rest[i] \in { "-", "+" }

\* rest has an exponent mark at index i
ExponentAt(rest, i) == i <= Len(rest) /\ rest[i] \in { "e", "E" }

\* an optional exponent after the fraction
ParseExponent(minus, rest, int, frac) ==
    ParseEnd(minus, rest, int, frac,
             /\ ExponentAt(rest, frac.next)
             /\ SignAt(rest, frac.next + 1)
             /\ rest[frac.next + 1] = "-",
             IF ExponentAt(rest, frac.next)
             THEN ReadDigits(rest,
                             frac.next + (IF SignAt(rest, frac.next + 1)
                                          THEN 2 ELSE 1))
             ELSE [next |-> frac.next, digits |-> << 0 >>])

\* an optional point and fraction after the whole part int
ParseFraction(minus, rest, int) ==
    ParseExponent(minus, rest, int,
                  IF int.next <= Len(rest) /\ rest[int.next] = "."
                  THEN ReadDigits(rest, int.next + 1)
                  ELSE [next |-> int.next, digits |-> << >>])

\* the text after the sign
ParseNumber(minus, rest) ==
    IF \/ Spells(rest, << "i", "n", "f" >>, << "I", "N", "F" >>)
       \/ Spells(rest, << "i", "n", "f", "i", "n", "i", "t", "y" >>,
                       << "I", "N", "F", "I", "N", "I", "T", "Y" >>)
    THEN [ok |-> TRUE, value |-> Inf(minus)]
    ELSE IF Spells(rest, << "n", "a", "n" >>, << "N", "A", "N" >>)
    THEN [ok |-> TRUE, value |-> NaN]
    ELSE ParseFraction(minus, rest, ReadDigits(rest, 1))

\* a text without white space around it: an optional sign, then the number
ParseSigned(t) ==
    ParseNumber(Len(t) > 0 /\ t[1] = "-",
                IF Len(t) > 0 /\ t[1] \in { "-", "+" } THEN Tail(t) ELSE t)

\* float(text): white space around the number is dropped; then a sign, and
\* inf, infinity or nan in any case, or digits with an optional point and
\* fraction and an optional exponent.  Anything else raises ValueError.
float(text) == ParseSigned(Strip(text))

\* The whole part of |x| (its binary digits) and whether a fraction is
\* left, for a finite x.
IntFrac(x) ==
    IF ~AnyOne(x.man) THEN [int |-> << >>, frac |-> FALSE]
    ELSE IF x.exp >= 0
    THEN [int |-> x.man \o Zeros(x.exp), frac |-> FALSE]
    ELSE IF -x.exp >= 53 THEN [int |-> << >>, frac |-> TRUE]
    ELSE [int |-> SubSeq(x.man, 1, 53 + x.exp),
          frac |-> AnyOne(SubSeq(x.man, 54 + x.exp, 53))]

\* the integer at or above (-1)^neg * (p.int + a fraction if p.frac)
Above(neg, p) ==
    IF neg THEN Signed(TRUE, p.int)
    ELSE Signed(FALSE, IF p.frac THEN Increment(p.int) ELSE p.int)

\* the integer at or below it
Below(neg, p) ==
    IF neg THEN Signed(TRUE, IF p.frac THEN Increment(p.int) ELSE p.int)
    ELSE Signed(FALSE, p.int)

NoInt(err) == [ok |-> FALSE, error |-> err, n |-> Signed(FALSE, << >>)]

\* A variant that rounds down, as math.floor does.
ceil_Floor(x) ==
    IF x.kind = "inf" THEN NoInt("OverflowError")
    ELSE IF x.kind = "nan" THEN NoInt("ValueError")
    ELSE [ok |-> TRUE, error |-> "", n |-> Below(x.neg, IntFrac(x))]

\* math.ceil: the smallest integer >= x; OverflowError for an infinity,
\* ValueError for a NaN
ceil(x) ==
    IF x.kind = "inf" THEN NoInt("OverflowError")
    ELSE IF x.kind = "nan" THEN NoInt("ValueError")
    ELSE [ok |-> TRUE, error |-> "", n |-> Above(x.neg, IntFrac(x))]

\* big - small with the sign of the greater, for bit strings of one length
\* scaled by 2^exp
Difference(neg, big, small, exp) ==
    RoundBits(neg, Trim(SubBits(big, small)), FALSE, exp)

\* the sum of two significands brought to one width and one exponent
AddAligned(xneg, xw, yneg, yw, exp) ==
    IF xneg = yneg THEN RoundBits(xneg, Trim(AddBits(xw, yw)), FALSE, exp)
    ELSE IF xw = yw THEN Zero(FALSE)
    ELSE IF BitsLess(xw, yw) THEN Difference(yneg, yw, xw, exp)
    ELSE Difference(xneg, xw, yw, exp)

\* man * 2^exp written with last place 2^emin in width bits
Widen(man, exp, emin, width) == PadLeft(man \o Zeros(exp - emin), width)

\* x + y on finite doubles: the exact sum, rounded to nearest, ties to even
FiniteAdd(x, y) ==
    IF x.man = << >> /\ y.man = << >> THEN Zero(x.neg /\ y.neg)
    ELSE IF x.man = << >> THEN y
    ELSE IF y.man = << >> THEN x
    ELSE AddAligned(
             x.neg,
             Widen(x.man, x.exp, Min(x.exp, y.exp),
                   53 + Max(x.exp, y.exp) - Min(x.exp, y.exp)),
             y.neg,
             Widen(y.man, y.exp, Min(x.exp, y.exp),
                   53 + Max(x.exp, y.exp) - Min(x.exp, y.exp)),
             Min(x.exp, y.exp))

\* x + y on doubles (line 126): a NaN stays a NaN, an infinity stays
\* itself unless the other infinity is added to it
FloatAdd(x, y) ==
    IF x.kind = "nan" \/ y.kind = "nan" THEN NaN
    ELSE IF x.kind = "inf"
    THEN (IF y.kind = "inf" /\ y.neg # x.neg THEN NaN ELSE x)
    ELSE IF y.kind = "inf" THEN y
    ELSE FiniteAdd(x, y)

\* the sign of text t, "" when it has none
SignOf(t) == IF Len(t) > 0 /\ t[1] \in { "-", "+" } THEN t[1] ELSE ""

\* the digits after the sign of an int literal: ValueError for more than
\* MaxStrDigits digits, leading zeros counted and underscores not
IntDigits(minus, rest, read) ==
    IF /\ Len(read.digits) > 0
       /\ Len(read.digits) <= MaxStrDigits
       /\ read.next = Len(rest) + 1
    THEN [ok |-> TRUE, error |-> "", n |-> Signed(minus, DigitsBits(read.digits))]
    ELSE NoInt("ValueError")

\* int() of a text without white space around it: an optional sign, then
\* decimal digits
IntLiteral(minus, rest) == IntDigits(minus, rest, ReadDigits(rest, 1))

\* int() of a float: toward zero; OverflowError for an infinity, ValueError
\* for a NaN
IntOfFloat(x) ==
    IF x.kind = "inf" THEN NoInt("OverflowError")
    ELSE IF x.kind = "nan" THEN NoInt("ValueError")
    ELSE [ok |-> TRUE, error |-> "", n |-> Signed(x.neg, IntFrac(x).int)]

\* A value that yaml.safe_load gives: its type, and its content in the
\* field of that type (an int, a bool as 0 or 1, a text or a float).
PyValue(type, n, text, x) ==
    [type |-> type, int |-> n, str |-> text, float |-> x]

PyInt(n) == PyValue("int", IntOf(n), << >>, Zero(FALSE))

PyStr(chars) == PyValue("str", IntOf(0), chars, Zero(FALSE))

PyFloat(x) == PyValue("float", IntOf(0), << >>, x)

PyBool(b) == PyValue("bool", IntOf(IF b THEN 1 ELSE 0), << >>, Zero(FALSE))

PyNone == PyValue("NoneType", IntOf(0), << >>, Zero(FALSE))

PyDict == PyValue("dict", IntOf(0), << >>, Zero(FALSE))

\* int(v) (lines 17-18): an int is itself, a bool 0 or 1, a float is cut
\* toward zero, a text is read as a decimal literal (ValueError when it is
\* none); anything else raises TypeError.
int(v) ==
    IF v.type \in { "int", "bool" }
    THEN [ok |-> TRUE, error |-> "", n |-> v.int]
    ELSE IF v.type = "float" THEN IntOfFloat(v.float)
    ELSE IF v.type = "str"
    THEN IntLiteral(SignOf(Strip(v.str)) = "-",
                    IF SignOf(Strip(v.str)) = "" THEN Strip(v.str)
                    ELSE Tail(Strip(v.str)))
    ELSE NoInt("TypeError")

(***************************************************************************)
(* JSON text (main.py:25-41).  A text is a sequence of tokens: punctuation *)
(* { } [ ] : , and string literals.                                        *)
(***************************************************************************)
Punct(c) == [t |-> "p", v |-> c]
Str(s) == [t |-> "str", v |-> s]

\* The literal of main.py:28-39, token by token; note the comma that
\* follows the closing bracket of "Values" on line 36.
DefaultFilterText ==
    << Punct("{"), Str("Not"), Punct(":"),
         Punct("{"), Str("Dimensions"), Punct(":"),
           Punct("{"), Str("Key"), Punct(":"), Str("RECORD_TYPE"), Punct(","),
                   Str("Values"), Punct(":"),
                   Punct("["), Str("Credit"), Punct(","), Str("Refund"), Punct(","),
                           Str("Enterprise Discount Program Discount"), Punct("]"),
                   Punct(","),
           Punct("}"),
         Punct("}"),
       Punct("}") >>

RECURSIVE JsonValue(_, _), JsonMembers(_, _), JsonElements(_, _)

\* json.loads, recursive descent.  Each operator takes the token sequence
\* and the index of the next token, and returns the index after the parsed
\* construct, or 0 where the decoder raises JSONDecodeError.
JsonValue(toks, i) ==
    IF i > Len(toks) THEN 0
    ELSE IF toks[i].t = "str" THEN i + 1
    ELSE IF toks[i] = Punct("{") THEN
        IF i + 1 <= Len(toks) /\ toks[i + 1] = Punct("}") THEN i + 2
        ELSE JsonMembers(toks, i + 1)
    ELSE IF toks[i] = Punct("[") THEN
        IF i + 1 <= Len(toks) /\ toks[i + 1] = Punct("]") THEN i + 2
        ELSE JsonElements(toks, i + 1)
    ELSE 0

\* "key": value pairs after "{" or ","; a property name must follow.
JsonMembers(toks, i) ==
    IF i + 1 > Len(toks) \/ toks[i].t # "str" \/ toks[i + 1] # Punct(":") THEN 0
    ELSE LET j == JsonValue(toks, i + 2) IN
         IF j = 0 \/ j > Len(toks) THEN 0
         ELSE IF toks[j] = Punct("}") THEN j + 1
         ELSE IF toks[j] = Punct(",") THEN JsonMembers(toks, j + 1)
         ELSE 0

\* values after "[" or ","
JsonElements(toks, i) ==
    LET j == JsonValue(toks, i) IN
    IF j = 0 \/ j > Len(toks) THEN 0
    ELSE IF toks[j] = Punct("]") THEN j + 1
    ELSE IF toks[j] = Punct(",") THEN JsonElements(toks, j + 1)
    ELSE 0

\* json.loads(v): the decoded document (represented by its token sequence,
\* white space gone), a JSONDecodeError for a text that is no JSON
\* document, a TypeError for a value that is no text.
json_loads(v) ==
    IF v.type # "str"
    THEN [ok |-> FALSE, error |-> "TypeError", value |-> << >>]
    ELSE IF Len(v.str) > 0 /\ JsonValue(v.str, 1) = Len(v.str) + 1
    THEN [ok |-> TRUE, error |-> "", value |-> v.str]
    ELSE [ok |-> FALSE, error |-> "JSONDecodeError", value |-> << >>]

(***************************************************************************)
(* Constants.__init__ (main.py:16-41).  config is the loaded mapping, one  *)
(* field per key it holds.  The values of scrape_interval, port and filter *)
(* carry their YAML type; the other values are plain text.                 *)
(***************************************************************************)
\* config.get(key, default)
Get(config, key, default) ==
    IF key \in DOMAIN config THEN config[key] ELSE default

NoConstants(err) ==
    [ok |-> FALSE, error |-> err, scrape_interval |-> IntOf(0),
     port |-> IntOf(0), project |-> ABSENT, role_arn |-> ABSENT,
     region |-> ABSENT, cost_type |-> ABSENT, cost_filter |-> << >>]

\* Lines 20-41 once project and role_arn are read: the keys read with
\* config.get and the filter, decoded last.
ConstantsWith(config, scrape_interval, port, project, role_arn, filter) ==
    IF ~filter.ok THEN NoConstants(filter.error)
    ELSE [ok |-> TRUE, error |-> "",
          scrape_interval |-> scrape_interval,
          port |-> port,
          project |-> project,
          role_arn |-> role_arn,
          region |-> Get(config, "region", "us-east-1"),
          cost_type |-> Get(config, "cost_type", "AmortizedCost"),
          cost_filter |-> filter.value]

\* int(...) * 86400 of line 17
Seconds(days) == Signed(days.neg, MulNat(days.bits, SecondsPerDay))

\* Variant: project and role_arn read with config.get like the other keys.
Constants_Lenient(config) ==
    LET days == int(Get(config, "scrape_interval", PyInt(DefaultScrapeDays)))
        port == int(Get(config, "port", PyInt(DefaultPort)))
    IN IF ~days.ok THEN NoConstants(days.error)
       ELSE IF ~port.ok THEN NoConstants(port.error)
       ELSE ConstantsWith(config, Seconds(days.n), port.n,
                          Get(config, "project", ABSENT),
                          Get(config, "role_arn", ABSENT),
                          json_loads(Get(config, "filter",
                                         PyStr(DefaultFilterText))))

\* Lines 18-41 after line 17: int() of the port raises ValueError,
\* TypeError or OverflowError; then config["project"] and
\* config["role_arn"] raise KeyError when missing.
ConstantsFromPort(config, scrape_interval, port) ==
    IF ~port.ok THEN NoConstants(port.error)
    ELSE IF "project" \notin DOMAIN config THEN NoConstants("KeyError")
    ELSE IF "role_arn" \notin DOMAIN config THEN NoConstants("KeyError")
    ELSE ConstantsWith(config, scrape_interval, port.n,
                       config["project"], config["role_arn"],
                       json_loads(Get(config, "filter",
                                      PyStr(DefaultFilterText))))

\* Lines 17-41 after int() of the scrape interval, which comes first and
\* raises like that of the port.
ConstantsFromDays(config, days) ==
    IF ~days.ok THEN NoConstants(days.error)
    ELSE ConstantsFromPort(config, Seconds(days.n),
                           int(Get(config, "port", PyInt(DefaultPort))))

\* Constants(config): the attributes in the order of the assignments, the
\* first exception leaving __init__.
Constants(config) ==
    ConstantsFromDays(config,
        int(Get(config, "scrape_interval", PyInt(DefaultScrapeDays))))

(***************************************************************************)
(* Calendar dates and __get_time_range (main.py:100-109).                  *)
(***************************************************************************)
IsLeap(y) == (y % 4 = 0 /\ y % 100 # 0) \/ y % 400 = 0

DaysInMonth(y, m) ==
    IF m = 2 THEN (IF IsLeap(y) THEN 29 ELSE 28)
    ELSE IF m \in {4, 6, 9, 11} THEN 30 ELSE 31

\* date - timedelta(days=1)
MinusOneDay(d) ==
    IF d.day > 1 THEN [d EXCEPT !.day = d.day - 1]
    ELSE IF d.month > 1
         THEN [year |-> d.year, month |-> d.month - 1,
               day |-> DaysInMonth(d.year, d.month - 1)]
         ELSE [year |-> d.year - 1, month |-> 12, day |-> 31]

\* the day after d (the clock's progress)
PlusOneDay(d) ==
    IF d.day < DaysInMonth(d.year, d.month) THEN [d EXCEPT !.day = d.day + 1]
    ELSE IF d.month < 12
         THEN [year |-> d.year, month |-> d.month + 1, day |-> 1]
         ELSE [year |-> d.year + 1, month |-> 1, day |-> 1]

DigitChars == << "0", "1", "2", "3", "4", "5", "6", "7", "8", "9" >>

RECURSIVE ZeroPad(_, _)
\* n as decimal digits, zero padded to width characters
ZeroPad(n, width) ==
    IF width = 0 THEN << >>
    ELSE Append(ZeroPad(n \div 10, width - 1), DigitChars[(n % 10) + 1])

\* strftime("%Y-%m-%d")
strftime(d) ==
    ZeroPad(d.year, 4) \o << "-" >> \o ZeroPad(d.month, 2)
        \o << "-" >> \o ZeroPad(d.day, 2)

\* __get_time_range with utcnow() = clock: the datetime is cut to its date
\* (line 103), a day is subtracted (104), both are formatted (106-107).
get_time_range(clock) ==
    LET end == [year |-> clock.year, month |-> clock.month, day |-> clock.day]
        start == MinusOneDay(end)
    IN [Start |-> strftime(start), End |-> strftime(end)]

(***************************************************************************)
(* __get_aws_cost (main.py:111-132).  self is the collector object, api    *)
(* the outcome of get_cost_and_usage: [ok, groups], ok = FALSE when the    *)
(* client raises.  The Cost dict is a sequence of [service, cost] entries  *)
(* in insertion order.                                                     *)
(***************************************************************************)
\* the keyword arguments of lines 112-118
CostRequest(self) ==
    [TimePeriod |-> self.time_range,
     Granularity |-> "DAILY",
     Metrics |-> << self.cost_type >>,
     Filter |-> self.cost_filter,
     GroupBy |-> << [Type |-> "DIMENSION", Key |-> "SERVICE"] >>]

HasKey(d, k) == \E i \in 1..Len(d) : d[i].service = k

\* d[k] = v on a dict: an existing key keeps its place, a new one is added
\* at the end.
DictSet(d, k, v) ==
    IF HasKey(d, k)
    THEN [i \in 1..Len(d) |->
             IF d[i].service = k THEN [service |-> k, cost |-> v] ELSE d[i]]
    ELSE Append(d, [service |-> k, cost |-> v])

\* the double nearest to the Python int n
IntToDouble(n) == RoundBits(n.neg, n.bits, FALSE, 0)

\* A variant of the loop body that adds the rounded cost to the total.
AddGroup_RoundedTotal(acc, r) ==
    IF ~acc.ok THEN acc
    ELSE IF "AmortizedCost" \notin DOMAIN r.Metrics
         THEN [acc EXCEPT !.ok = FALSE, !.error = "KeyError"]
    ELSE LET amount == float(r.Metrics["AmortizedCost"].Amount) IN
         IF ~amount.ok THEN [acc EXCEPT !.ok = FALSE, !.error = "ValueError"]
         ELSE LET cost == ceil(amount.value) IN
              IF ~cost.ok THEN [acc EXCEPT !.ok = FALSE, !.error = cost.error]
              ELSE [acc EXCEPT
                      !.Cost = DictSet(acc.Cost, NormalizeService(r.Keys[1]),
                                       cost.n),
                      !.Total = FloatAdd(acc.Total, IntToDouble(cost.n))]

\* Lines 125-128: the entry is stored and the amount added to the total.
AddCost(acc, r, cost, value) ==
    [acc EXCEPT
       !.Cost = DictSet(acc.Cost, NormalizeService(r.Keys[1]), cost),
       !.Total = FloatAdd(acc.Total, value)]

\* Line 123 after float(): ceil raises, or the loop body goes on.
AddCeiling(acc, r, cost, value) ==
    IF ~cost.ok THEN [acc EXCEPT !.ok = FALSE, !.error = cost.error]
    ELSE AddCost(acc, r, cost.n, value)

\* Lines 123-128 for the outcome of float() on the amount text; the text
\* converts alike on line 123 and on line 127.
AddAmount(acc, r, amount) ==
    IF ~amount.ok THEN [acc EXCEPT !.ok = FALSE, !.error = "ValueError"]
    ELSE AddCeiling(acc, r, ceil(amount.value), amount.value)

\* One pass of the loop body (lines 123-128) over group r; an exception
\* (KeyError of the metric lookup, ValueError of float, ValueError or
\* OverflowError of ceil) ends the loop and leaves the function.
AddGroup(acc, r) ==
    IF ~acc.ok THEN acc
    ELSE IF "AmortizedCost" \notin DOMAIN r.Metrics
         THEN [acc EXCEPT !.ok = FALSE, !.error = "KeyError"]
    ELSE AddAmount(acc, r, float(r.Metrics["AmortizedCost"].Amount))

RECURSIVE AddGroups(_, _, _)
\* the for loop of line 122 from group i on
AddGroups(acc, groups, i) ==
    IF i > Len(groups) THEN acc
    ELSE AddGroups(AddGroup(acc, groups[i]), groups, i + 1)

get_aws_cost(self, api) ==
    IF ~api.ok
    THEN [ok |-> FALSE, error |-> "ClientError", Cost |-> << >>,
          Total |-> Zero(FALSE)]
    ELSE AddGroups([ok |-> TRUE, error |-> "", Cost |-> << >>,
                    Total |-> Zero(FALSE)],
                   api.groups, 1)

(***************************************************************************)
(* collect (main.py:134-159).  The result is what the caller of the        *)
(* generator sees: the metric families yielded, or the exception raised.   *)
(***************************************************************************)
ServiceSample(self, entry) ==
    [name |-> "aws_cost",
     value |-> entry.cost,
     labels |-> [project |-> self.project, service |-> entry.service,
                 type |-> "individual_service"]]

TotalSample(self, total) ==
    [name |-> "aws_cost",
     value |-> total,
     labels |-> [project |-> self.project, type |-> "daily_total"]]

\* A variant that leaves the daily total out.
CollectSamples_NoTotal(self, costs) ==
    [i \in 1..Len(costs.Cost) |-> ServiceSample(self, costs.Cost[i])]

\* the samples added by lines 142-157
CollectSamples(self, costs) ==
    Append([i \in 1..Len(costs.Cost) |-> ServiceSample(self, costs.Cost[i])],
           TotalSample(self, costs.Total))

\* collect() once __get_aws_cost has returned costs or raised
CollectResult(self, costs) ==
    IF ~costs.ok
    THEN [outcome |-> "raised", error |-> costs.error, metrics |-> << >>]
    ELSE [outcome |-> "ok", error |-> "",
          metrics |-> << [name |-> "aws_project_cost_as_per_service",
                          documentation |->
                              "Service wise cost for an AWS account",
                          type |-> "gauge",
                          samples |-> CollectSamples(self, costs)] >>]

collect(self, api) == CollectResult(self, get_aws_cost(self, api))

(***************************************************************************)
(* Inputs: configuration files, clock readings, billing responses.         *)
(***************************************************************************)
\* a filter the operator wrote: {"Dimensions": {"Key": "SERVICE",
\* "Values": ["Tax"]}}
CustomFilterText ==
    << Punct("{"), Str("Dimensions"), Punct(":"),
         Punct("{"), Str("Key"), Punct(":"), Str("SERVICE"), Punct(","),
                 Str("Values"), Punct(":"), Punct("["), Str("Tax"), Punct("]"),
         Punct("}"),
       Punct("}") >>

\* a filter cut short: {"Not": {
BrokenFilterText == << Punct("{"), Str("Not"), Punct(":"), Punct("{") >>

ConfigKeys == { "project", "role_arn", "filter", "cost_type", "tuning" }

\* the filter values of a configuration file: two JSON texts and a YAML
\* mapping
Filters == { PyStr(CustomFilterText), PyStr(BrokenFilterText), PyDict }

\* The scrape_interval and port of a configuration file: a number and a
\* quoted number; a quoted number and a port that is no number; a fraction
\* of days with a port no socket takes; an empty scrape_interval.
Tunings ==
    { [scrape_interval |-> PyInt(7),
       port |-> PyStr(<< "9", "1", "0", "0" >>)],
      [scrape_interval |-> PyStr(<< "7" >>),
       port |-> PyStr(<< "h", "t", "t", "p" >>)],
      [scrape_interval |-> PyFloat(float(<< "1", ".", "9" >>).value),
       port |-> PyInt(70000)],
      [scrape_interval |-> PyNone, port |-> PyInt(9100)] }

\* The configuration mapping holding the keys of K ("tuning" stands for the
\* three keys scrape_interval, port and region, set together).
ConfigWith(K, filter, cost_type, tuning) ==
    LET keys == (K \ { "tuning" }) \cup
                (IF "tuning" \in K
                 THEN { "scrape_interval", "port", "region" } ELSE { })
        full == [project |-> "acme", role_arn |-> "arn:aws:iam::123:role/x",
                 filter |-> filter, cost_type |-> cost_type,
                 scrape_interval |-> tuning.scrape_interval,
                 port |-> tuning.port, region |-> "eu-west-1"]
    IN [k \in keys |-> full[k]]

\* cost_type is left out or names another metric than the default.  One
\* complete file holds a quoted port of one digit more than int() reads.
Configs ==
    { ConfigWith(K, f, "UnblendedCost", t) :
          K \in SUBSET ConfigKeys, f \in Filters, t \in Tunings }
    \cup
    { ConfigWith(ConfigKeys, PyStr(CustomFilterText), "UnblendedCost", t) :
          t \in { [scrape_interval |-> PyInt(1),
                   port |-> PyStr([i \in 1..(MaxStrDigits + 1) |-> "9"])] } }

\* utcnow() at process start: noon before a leap day's successor, noon of
\* New Year's Eve, midnight of 1 March of a common year.
StartClocks ==
    { [year |-> 2024, month |-> 2, day |-> 29, hour |-> 12],
      [year |-> 2023, month |-> 12, day |-> 31, hour |-> 12],
      [year |-> 2023, month |-> 3, day |-> 1, hour |-> 0] }

ServiceKeys ==
    { << "E", "C", "2" >>,
      << "A", " ", "B" >>,
      << "A", "\r", " ", "B" >> }

Group(key, amount) == [key |-> key, amount |-> amount]

\* amounts served under every service key
Amounts ==
    { << "3", ".", "1", "0" >>,
      << "-", "0", ".", "3" >>,
      << "-", "1", ".", "5" >> }

\* further spellings float() is given, served under one key: ten decimal
\* places, a whole number beyond 2^31, an exponent, digits of another
\* script within white space, a digit-group underscore, a number beyond
\* the doubles, a NaN, and a text float() rejects
OtherAmounts ==
    { << "1", "2", ".", "3", "4", "5", "6", "7", "8", "9", "0", "1", "2" >>,
      << "2", "1", "4", "7", "4", "8", "3", "6", "4", "8" >>,
      << "1", "E", "-", "7" >>,
      << " ", "U+0663", ".", "U+0665", "\n" >>,
      << "1", "_", "0" >>,
      << "1", "e", "4", "0", "0" >>,
      << "N", "a", "N" >>,
      << "1", ",", "5" >> }

GroupBodies ==
    { Group(k, a) : k \in ServiceKeys, a \in Amounts }
        \cup { Group(<< "E", "C", "2" >>, a) : a \in OtherAmounts }

RECURSIVE SeqsUpTo(_, _)
\* the sequences over S of length at most n
SeqsUpTo(S, n) ==
    IF n = 0 THEN { << >> }
    ELSE LET shorter == SeqsUpTo(S, n - 1) IN
         shorter \cup { Append(q, x) : q \in shorter, x \in S }

\* every group list of at most MaxGroups groups
ResponseBodies == SeqsUpTo(GroupBodies, MaxGroups)

\* The group lists served during a run of the whole process: none, the two
\* services of a plain day, two spellings of one service, a bad amount.
ScrapeBodies ==
    { << >>,
      << Group(<< "E", "C", "2" >>, << "1", "2", ".", "4", "0" >>),
         Group(<< "A", " ", "B" >>, << "3", ".", "1", "0" >>) >>,
      << Group(<< "A", " ", "B" >>, << "-", "0", ".", "3" >>),
         Group(<< "A", "\r", " ", "B" >>, << "-", "1", ".", "5" >>) >>,
      << Group(<< "E", "C", "2" >>, << "1", ",", "5" >>) >> }

\* What the billing API answers to request: an error, or one group per
\* body entry carrying the amount under the metric the request named.
ApiReply(request, fails, body) ==
    IF fails THEN [ok |-> FALSE, groups |-> << >>]
    ELSE [ok |-> TRUE,
          groups |-> [i \in 1..Len(body) |->
              [Keys |-> << body[i].key >>,
               Metrics |-> (request.Metrics[1] :>
                              [Amount |-> body[i].amount, Unit |-> "USD"])]]]

(***************************************************************************)
(* The process (main.py:170-196).  The main thread runs lines 180-196; the *)
(* HTTP server answers each scrape in a thread of its own.  A call of a    *)
(* remote service is two steps, the request and the reply, and the clock   *)
(* and the other threads go on between them.                               *)
(***************************************************************************)
VARIABLES
    pc,              \* position of the main thread
    loaded_config,   \* the mapping read from the configuration file
    config,          \* the Constants object (line 180)
    server,          \* the HTTP metrics server: [state, port]
    default_session, \* boto3's default session
    metrics,         \* the AWSCostMetricCollector object (line 186)
    registered,      \* whether REGISTRY holds the collector (line 194)
    now,             \* the UTC clock
    ticks,           \* clock advances so far
    sts_calls,       \* assume_role calls made so far
    describing,      \* the billing call that register() is waiting for
    pending,         \* the billing calls that scrapes are waiting for
    last_scrape      \* the latest scrape answered or registration call of
                     \* collect(): clock at the request, request, reply,
                     \* result

vars == << pc, loaded_config, config, server, default_session, metrics,
           registered, now, ticks, sts_calls, describing, pending,
           last_scrape >>

NoSession == [role_arn |-> ABSENT, region |-> ABSENT, credentials |-> 0]

NoCollector ==
    [constructed |-> FALSE, project |-> ABSENT, role_arn |-> ABSENT,
     region |-> ABSENT, ce |-> NoSession,
     time_range |-> [Start |-> << >>, End |-> << >>],
     cost_type |-> ABSENT, cost_filter |-> << >>]

NoRequest ==
    [TimePeriod |-> [Start |-> << >>, End |-> << >>], Granularity |-> "",
     Metrics |-> << >>, Filter |-> << >>, GroupBy |-> << >>]

NoCall ==
    [at |-> [year |-> 0, month |-> 0, day |-> 0, hour |-> 0],
     request |-> NoRequest]

NoScrape ==
    [kind |-> "none", at |-> [year |-> 0, month |-> 0, day |-> 0, hour |-> 0],
     request |-> NoRequest, body |-> << >>,
     api |-> [ok |-> FALSE, groups |-> << >>],
     result |-> [outcome |-> "none", error |-> "", metrics |-> << >>]]

Init ==
    /\ pc = "load_config"
    /\ loaded_config \in Configs
    /\ config = NoConstants("")
    /\ server = [state |-> "not_started", port |-> IntOf(0)]
    /\ default_session = NoSession
    /\ metrics = NoCollector
    /\ registered = FALSE
    /\ now \in StartClocks
    /\ ticks = 0
    /\ sts_calls = 0
    /\ describing = NoCall
    /\ pending = << >>
    /\ last_scrape = NoScrape

\* The process ends on an uncaught exception of the main thread; the
\* server runs in a daemon thread and ends with it.
Exit(srv) ==
    IF srv.state = "accepting" THEN [srv EXCEPT !.state = "stopped"] ELSE srv

\* str() of the int n does not raise: n has at most MaxStrDigits decimal
\* digits, |n| < 10^MaxStrDigits.  A number of k binary digits lies in
\* 2^(k-1) .. 2^k - 1 and 0.30102 < log10(2) < 0.30103, so k decides but
\* for the one k that the limit itself has.
Printable(n) ==
    \/ Len(n.bits) * 30103 <= MaxStrDigits * 100000
    \/ /\ (Len(n.bits) - 1) * 30102 < MaxStrDigits * 100000
       /\ LET limit == DigitsBits(<< 1 >> \o Zeros(MaxStrDigits))
          IN /\ Len(n.bits) <= Len(limit)
             /\ BitsLess(PadLeft(n.bits, Len(limit)), limit)

\* log_config (lines 55-66): print() writes scrape_interval and port in
\* decimal and raises ValueError for a number that str() does not write;
\* the other values are texts.  The error raised, "" for none.
log_config(constants) ==
    IF Printable(constants.scrape_interval) /\ Printable(constants.port)
    THEN "" ELSE "ValueError"

\* Lines 180-181: config = Constants(config=loaded_config), then
\* config.log_config(); an exception of either ends the process.
LoadConfig ==
    /\ pc = "load_config"
    /\ config' = Constants(loaded_config)
    /\ pc' = IF config'.ok /\ log_config(config') = ""
             THEN "start_server" ELSE "exited"
    /\ UNCHANGED << loaded_config, server, default_session, metrics,
                    registered, now, ticks, sts_calls, describing, pending,
                    last_scrape >>

\* a port that a socket can be bound to: 0..65535
PortInRange(port) == ~port.neg /\ Len(port.bits) <= 16

\* Line 183: start_http_server(port).  Binding raises OverflowError for a
\* port outside 0..65535 and OSError for a port the process cannot have;
\* either leaves the main thread.
StartServer ==
    /\ pc = "start_server"
    /\ \E bound \in BOOLEAN :
         /\ bound => PortInRange(config.port)
         /\ server' = IF bound
                      THEN [state |-> "accepting", port |-> config.port]
                      ELSE server
         /\ pc' = IF bound THEN "construct" ELSE "exited"
    /\ UNCHANGED << loaded_config, config, default_session, metrics,
                    registered, now, ticks, sts_calls, describing, pending,
                    last_scrape >>

\* __switch_to_client_account (lines 83-98) with the credentials that
\* assume_role returned: the default session is replaced.
switch_to_client_account(role_arn, region, credentials) ==
    [role_arn |-> role_arn, region |-> region, credentials |-> credentials]

\* the collector object that __init__ (70-81) leaves, its time range read
\* from the clock (line 101)
Collector(constants, session, clock) ==
    [constructed |-> TRUE,
     project |-> constants.project,
     role_arn |-> constants.role_arn,
     region |-> constants.region,
     ce |-> session,
     time_range |-> get_time_range(clock),
     cost_type |-> constants.cost_type,
     cost_filter |-> constants.cost_filter]

\* Lines 186-192, __init__ as far as line 84: the assume_role request is
\* sent, and the main thread waits for the reply.
ConstructCall ==
    /\ pc = "construct"
    /\ sts_calls' = sts_calls + 1
    /\ pc' = "assuming"
    /\ UNCHANGED << loaded_config, config, server, default_session, metrics,
                    registered, now, ticks, describing, pending, last_scrape >>

\* The reply of assume_role arrives.  With credentials the default session
\* is replaced (line 93), the billing client made (77) and the time range
\* read from the clock as it is now (79); an error leaves __init__ and ends
\* the process.
ConstructReturn ==
    /\ pc = "assuming"
    /\ \E assumed \in BOOLEAN :
         IF assumed
         THEN /\ default_session' =
                    switch_to_client_account(config.role_arn, config.region,
                                             sts_calls)
              /\ metrics' = Collector(config, default_session', now)
              /\ pc' = "register"
              /\ UNCHANGED server
         ELSE /\ pc' = "exited"
              /\ server' = Exit(server)
              /\ UNCHANGED << default_session, metrics >>
    /\ UNCHANGED << loaded_config, config, registered, now, ticks,
                    sts_calls, describing, pending, last_scrape >>

\* Line 194, first half: REGISTRY.register(metrics).  The collector has no
\* describe(), so the default registry calls collect() to learn the metric
\* names; collect() sends the billing request and waits for the reply.
RegisterCall ==
    /\ pc = "register"
    /\ describing' = [at |-> now, request |-> CostRequest(metrics)]
    /\ pc' = "describing"
    /\ UNCHANGED << loaded_config, config, server, default_session, metrics,
                    registered, now, ticks, sts_calls, pending, last_scrape >>

\* What a call of collect() leaves behind: the request sent at clock
\* reading at, the reply, and the result of collect() on it.
ReplyRecord(kind, at, request, body, api) ==
    [kind |-> kind, at |-> at, request |-> request, body |-> body,
     api |-> api, result |-> collect(metrics, api)]

CallRecord(kind, at, request, fails, body) ==
    ReplyRecord(kind, at, request, body, ApiReply(request, fails, body))

\* Line 194, second half: the reply arrives.  If collect() raises, the
\* exception leaves register() uncaught and ends the process; otherwise
\* the collector is registered and the main thread sleeps (195-196).
RegisterReturn ==
    /\ pc = "describing"
    /\ \E fails \in BOOLEAN, body \in ScrapeBodies :
         /\ fails => body = << >>
         /\ last_scrape' = CallRecord("described", describing.at,
                                      describing.request, fails, body)
    /\ registered' = (last_scrape'.result.outcome = "ok")
    /\ pc' = IF registered' THEN "serving" ELSE "exited"
    /\ server' = IF registered' THEN server ELSE Exit(server)
    /\ UNCHANGED << loaded_config, config, default_session, metrics, now,
                    ticks, sts_calls, describing, pending >>

\* A scrape before the collector is registered: only the library's own
\* collectors answer, and collect() is not called.
ScrapeUnregistered ==
    /\ server.state = "accepting"
    /\ ~registered
    /\ last_scrape' = [NoScrape EXCEPT !.kind = "unregistered", !.at = now]
    /\ UNCHANGED << pc, loaded_config, config, server, default_session,
                    metrics, registered, now, ticks, sts_calls, describing,
                    pending >>

\* A variant in which a scrape also refreshes the collector: it assumes
\* the role anew and recomputes the stored time range.
ScrapeCall_Refreshing ==
    /\ server.state = "accepting"
    /\ registered
    /\ Len(pending) < MaxPending
    /\ sts_calls' = sts_calls + 1
    /\ metrics' = [metrics EXCEPT !.time_range = get_time_range(now)]
    /\ pending' = Append(pending,
                         [at |-> now, request |-> CostRequest(metrics')])
    /\ UNCHANGED << pc, loaded_config, config, server, default_session,
                    registered, now, ticks, describing, last_scrape >>

\* A scrape of the registered collector, first half: the server thread
\* calls collect(), which sends the billing request (line 112) and waits.
ScrapeCall ==
    /\ server.state = "accepting"
    /\ registered
    /\ Len(pending) < MaxPending
    /\ pending' = Append(pending,
                         [at |-> now, request |-> CostRequest(metrics)])
    /\ UNCHANGED << pc, loaded_config, config, server, default_session,
                    metrics, registered, now, ticks, sts_calls, describing,
                    last_scrape >>

\* Second half: the reply to one of the waiting scrapes arrives, an error
\* or one of Bodies, and collect() runs to its end on it.
ScrapeReturnFrom(Bodies) ==
    /\ server.state = "accepting"
    /\ \E i \in 1..Len(pending), fails \in BOOLEAN, body \in Bodies :
         /\ fails => body = << >>
         /\ last_scrape' = CallRecord("collected", pending[i].at,
                                      pending[i].request, fails, body)
         /\ pending' = SubSeq(pending, 1, i - 1)
                         \o SubSeq(pending, i + 1, Len(pending))
    /\ UNCHANGED << pc, loaded_config, config, server, default_session,
                    metrics, registered, now, ticks, sts_calls, describing >>

ScrapeReturn == ScrapeReturnFrom(ScrapeBodies)

\* Half a day passes.
Tick ==
    /\ pc # "exited"
    /\ ticks < MaxTicks
    /\ ticks' = ticks + 1
    /\ now' = IF now.hour = 0 THEN [now EXCEPT !.hour = 12]
              ELSE LET d == PlusOneDay(now) IN
                   [year |-> d.year, month |-> d.month, day |-> d.day,
                    hour |-> 0]
    /\ UNCHANGED << pc, loaded_config, config, server, default_session,
                    metrics, registered, sts_calls, describing, pending,
                    last_scrape >>

Next ==
    \/ LoadConfig
    \/ StartServer
    \/ ConstructCall
    \/ ConstructReturn
    \/ RegisterCall
    \/ RegisterReturn
    \/ ScrapeUnregistered
    \/ ScrapeCall
    \/ ScrapeReturn
    \/ Tick

Spec == Init /\ [][Next]_vars

(***************************************************************************)
(* The first scrape of a serving process, over every group list of at most *)
(* MaxGroups groups.  It starts where a process with a loadable            *)
(* configuration is after StartServer, ConstructCall, ConstructReturn,     *)
(* RegisterCall and a RegisterReturn whose reply held no groups.           *)
(***************************************************************************)
\* constants with which the process comes to serve
Servable(constants) ==
    constants.ok /\ log_config(constants) = "" /\ PortInRange(constants.port)

ServingInit ==
    /\ pc = "serving"
    /\ loaded_config \in { c \in Configs : Servable(Constants(c)) }
    /\ config = Constants(loaded_config)
    /\ server = [state |-> "accepting", port |-> config.port]
    /\ sts_calls = 1
    /\ default_session =
           switch_to_client_account(config.role_arn, config.region, 1)
    /\ now \in StartClocks
    /\ ticks = 0
    /\ metrics = Collector(config, default_session, now)
    /\ registered = TRUE
    /\ describing = [at |-> now, request |-> CostRequest(metrics)]
    /\ pending = << >>
    /\ last_scrape =
           CallRecord("described", now, describing.request, FALSE, << >>)

FirstScrapeCall ==
    /\ last_scrape.kind = "described"
    /\ pending = << >>
    /\ ScrapeCall

FirstScrapeReturn == ScrapeReturnFrom(ResponseBodies)

CollectNext ==
    \/ FirstScrapeCall
    \/ FirstScrapeReturn

CollectSpec == ServingInit /\ [][CollectNext]_vars

(***************************************************************************)
(* Properties.                                                             *)
(***************************************************************************)
\* the latest call was one of collect(): a scrape of the registered
\* collector, or the call that registration makes
Called == last_scrape.kind \in { "collected", "described" }

Succeeded == Called /\ last_scrape.result.outcome = "ok"

\* the samples that reached the server in the latest scrape
Samples ==
    IF last_scrape.result.metrics = << >> THEN << >>
    ELSE last_scrape.result.metrics[1].samples

\* the UTC calendar date of a clock reading
DateOf(clock) ==
    [year |-> clock.year, month |-> clock.month, day |-> clock.day]

NameOf(i) == NormalizeService(last_scrape.body[i].key)

AmountOf(i) == float(last_scrape.body[i].amount).value

DistinctNames ==
    \A i, j \in 1..Len(last_scrape.body) : i # j => NameOf(i) # NameOf(j)

\* the values of the per-service samples labelled with service name
ServiceValues(name) ==
    { Samples[j].value : j \in
        { n \in 1..Len(Samples) :
            /\ Samples[n].labels.type = "individual_service"
            /\ Samples[n].labels.service = name } }

\* the values of the daily-total samples
TotalValues ==
    { Samples[j].value : j \in
        { n \in 1..Len(Samples) : Samples[n].labels.type = "daily_total" } }

\* a < b for finite doubles
DoubleLess(a, b) ==
    LET magLess(u, v) ==
            IF v.man = << >> THEN FALSE
            ELSE IF u.man = << >> THEN TRUE
            ELSE u.exp < v.exp \/ (u.exp = v.exp /\ BitsLess(u.man, v.man))
        below(u) == u.neg /\ u.man # << >>
    IN IF below(a) /\ ~below(b) THEN TRUE
       ELSE IF ~below(a) /\ below(b) THEN FALSE
       ELSE IF below(a) THEN magLess(b, a)
       ELSE magLess(a, b)

\* the Python int n - 1
Pred(n) ==
    IF n.neg THEN Signed(TRUE, Increment(n.bits))
    ELSE IF n.bits = << >> THEN Signed(TRUE, << 1 >>)
    ELSE Signed(FALSE, Trim(SubBits(n.bits, PadLeft(<< 1 >>, Len(n.bits)))))

\* n is the smallest integer >= x, for an n of at most 53 bits, which
\* IntToDouble gives exactly
IsCeiling(n, x) ==
    /\ x.kind = "finite"
    /\ Len(n.bits) <= 53
    /\ ~DoubleLess(IntToDouble(n), x)
    /\ DoubleLess(IntToDouble(Pred(n)), x)

\* the per-service samples named as group i of the latest response are
\* one sample, and its value is the ceiling of that group's amount
CostIsCeiling(i) ==
    \E v \in ServiceValues(NameOf(i)) :
        /\ ServiceValues(NameOf(i)) = { v }
        /\ IsCeiling(v, AmountOf(i))

RECURSIVE SumAmounts(_)
\* the float sum, in order from 0.0, of the unrounded amounts of groups
\* 1..n of the latest response
SumAmounts(n) ==
    IF n = 0 THEN Zero(FALSE) ELSE FloatAdd(SumAmounts(n - 1), AmountOf(n))

\* C1: a collection whose billing query fails emits zero samples and does
\* not raise the failure to the server.
C1_QueryFailureContained ==
    (Called /\ ~last_scrape.api.ok) =>
        (last_scrape.result.outcome = "ok" /\ Samples = << >>)

\* C2: the time period sent with every collection is {start: d - 1 day,
\* end: d} for d the UTC date at the instant of that collection.
C2_WindowFollowsClock ==
    Called =>
        last_scrape.request.TimePeriod =
            [Start |-> strftime(MinusOneDay(DateOf(last_scrape.at))),
             End |-> strftime(DateOf(last_scrape.at))]

\* C3: the server accepts scrapes only once role assumption has established
\* the delegated session.
C3_SessionBeforeServer ==
    server.state = "accepting" =>
        (metrics.constructed /\ default_session # NoSession)

\* the filter the default of main.py:28-39 is meant to denote
DefaultFilterExpression ==
    << Punct("{"), Str("Not"), Punct(":"),
         Punct("{"), Str("Dimensions"), Punct(":"),
           Punct("{"), Str("Key"), Punct(":"), Str("RECORD_TYPE"), Punct(","),
                   Str("Values"), Punct(":"),
                   Punct("["), Str("Credit"), Punct(","), Str("Refund"),
                   Punct(","), Str("Enterprise Discount Program Discount"),
                   Punct("]"),
           Punct("}"),
         Punct("}"),
       Punct("}") >>

\* C4: a configuration with project and role_arn and without filter loads,
\* and gives the default filter; missing port, region, cost type and scrape
\* interval get 4298, us-east-1, AmortizedCost and 86400 seconds.
C4_DefaultsApplied ==
    ( /\ pc # "load_config"
      /\ { "project", "role_arn" } \subseteq DOMAIN loaded_config
      /\ "filter" \notin DOMAIN loaded_config ) =>
        /\ config.ok
        /\ config.cost_filter = DefaultFilterExpression
        /\ "port" \notin DOMAIN loaded_config => config.port = IntOf(4298)
        /\ "region" \notin DOMAIN loaded_config => config.region = "us-east-1"
        /\ "cost_type" \notin DOMAIN loaded_config
              => config.cost_type = "AmortizedCost"
        /\ "scrape_interval" \notin DOMAIN loaded_config
              => config.scrape_interval = IntOf(86400)

\* C5: a successful collection over k groups with pairwise distinct
\* normalized names emits exactly k + 1 samples: for each group one sample
\* labelled {project, service, individual_service} valued with the ceiling
\* of its amount, and exactly one labelled {project, daily_total} valued
\* with the total; all carry the configured project.
C5_SamplesPerGroup ==
    (Succeeded /\ DistinctNames) =>
        LET k == Len(last_scrape.body) IN
        /\ Len(last_scrape.result.metrics) = 1
        /\ Len(Samples) = k + 1
        /\ \A i \in 1..k :
              /\ Cardinality({ j \in 1..Len(Samples) :
                    /\ Samples[j].labels.type = "individual_service"
                    /\ Samples[j].labels.service = NameOf(i) }) = 1
              /\ CostIsCeiling(i)
        /\ Cardinality({ j \in 1..Len(Samples) :
              Samples[j].labels.type = "daily_total" }) = 1
        /\ TotalValues = { SumAmounts(k) }
        /\ \A j \in 1..Len(Samples) :
              /\ Samples[j].labels.project = loaded_config["project"]
              /\ DOMAIN Samples[j].labels =
                    IF Samples[j].labels.type = "daily_total"
                    THEN { "project", "type" }
                    ELSE { "project", "service", "type" }

C5_Witness ==
    /\ Succeeded
    /\ DistinctNames
    /\ Len(last_scrape.body) = 2
    /\ Len(Samples) = 3

\* C6 as stated: for every group of the response the per-service cost is
\* the ceiling of that group's amount.
C6_EveryGroupCeiling ==
    Succeeded =>
        \A i \in 1..Len(last_scrape.body) : CostIsCeiling(i)

\* C6 amended: for every group that is the last of the response with its
\* normalized name, the per-service cost is the ceiling of that group's
\* amount (smallest integer >= amount), negative amounts included.
C6_LastGroupCeiling ==
    Succeeded =>
        \A i \in 1..Len(last_scrape.body) :
            (\A j \in (i + 1)..Len(last_scrape.body) : NameOf(j) # NameOf(i))
                => CostIsCeiling(i)

C6_Witness ==
    /\ Succeeded
    /\ \E i \in 1..Len(last_scrape.body) :
          /\ last_scrape.body[i].amount = << "-", "0", ".", "3" >>
          /\ \A j \in (i + 1)..Len(last_scrape.body) : NameOf(j) # NameOf(i)
          /\ ServiceValues(NameOf(i)) = { IntOf(0) }

\* C7: the total is the sum of the unrounded amounts of all groups of the
\* response, groups that share a normalized name included.
C7_TotalIsUnroundedSum ==
    Succeeded => TotalValues = { SumAmounts(Len(last_scrape.body)) }

\* two groups share one entry, both count in the total, and the per-service
\* values do not add up to it
C7_Witness ==
    /\ Succeeded
    /\ Len(last_scrape.body) = 2
    /\ NameOf(1) = NameOf(2)
    /\ Len(Samples) = 2
    /\ TotalValues = { SumAmounts(2) }
    /\ IntToDouble(Samples[1].value) # SumAmounts(2)

\* a configuration error as C8 names it
ConfigError(c) ==
    \/ "project" \notin DOMAIN c
    \/ "role_arn" \notin DOMAIN c
    \/ ("filter" \in DOMAIN c /\ ~json_loads(c["filter"]).ok)

\* C8: after a configuration error (a missing project or role_arn, a
\* malformed filter) the server is never started.
C8_ConfigErrorNoServer ==
    ConfigError(loaded_config) => server.state = "not_started"

C8_Witness ==
    /\ ConfigError(loaded_config)
    /\ pc = "exited"
    /\ ~config.ok
    /\ server.state = "not_started"

\* C9: for every configured cost type a collection requests that metric and
\* reads each group's amount from it, so a query that succeeds with
\* well-formed amounts yields the samples.
C9_ConfiguredMetricUsed ==
    Called =>
        /\ last_scrape.request.Metrics = << config.cost_type >>
        /\ ( /\ last_scrape.api.ok
             /\ \A i \in 1..Len(last_scrape.body) :
                   float(last_scrape.body[i].amount).ok )
              => /\ last_scrape.result.outcome = "ok"
                 /\ Len(Samples) >= 1

\* the collector fields that collect() reads for its samples, taken from
\* the configuration alone
ConfiguredCollector ==
    [NoCollector EXCEPT !.project = config.project,
                        !.cost_type = config.cost_type,
                        !.cost_filter = config.cost_filter]

\* C10: no step after construction changes the collector, the session or
\* the number of role assumptions (one), and the result of every
\* collection is a function of its billing reply and the configuration.
C10_CollectWritesNothing ==
    [][ /\ metrics.constructed =>
            /\ metrics' = metrics
            /\ default_session' = default_session
            /\ describing' = describing \/ pc = "register"
            /\ sts_calls = 1 /\ sts_calls' = 1
            /\ metrics.project = config.project
            /\ metrics.cost_type = config.cost_type
            /\ metrics.cost_filter = config.cost_filter
        /\ last_scrape'.kind \in { "collected", "described" } =>
            last_scrape'.result = collect(ConfiguredCollector, last_scrape'.api)
      ]_vars

\* a failed collection a day after construction, the stored state as built
C10_Witness ==
    /\ Called
    /\ last_scrape.result.outcome = "raised"
    /\ sts_calls = 1
    /\ metrics.time_range # get_time_range(now)
    /\ metrics.ce = default_session

====
